---- MODULE Spec2Model ----
(***************************************************************************)
(* A model of two parts of mandubian/odeon:                                *)
(*   - the Siamese change-detection networks FCSiamConc and FCSiamDiff     *)
(*     (odeon/models/change/arch/change_unet.py): construction and the     *)
(*     forward pass, with its feature fusion;                              *)
(*   - the MLflow experiment logger (xp/mlflow_logger.py).                 *)
(*                                                                         *)
(* Tensors.  A tensor of shape (b, c, h, w) is a record                    *)
(*     [b |-> b, h |-> h, w |-> w, ch |-> <<v_1, ..., v_c>>]               *)
(* whose channel axis (dim 1) is the sequence ch; each channel's (b, h, w) *)
(* slab is abstracted to one integer, so an element-wise operation acts    *)
(* channel by channel and a concatenation on dim 1 is a concatenation of   *)
(* the ch sequences.                                                       *)
(*                                                                         *)
(* Python lists are 0-based and TLA+ sequences 1-based: level i of a       *)
(* feature pyramid in the code is element i + 1 of the sequence here.      *)
(***************************************************************************)
EXTENDS Integers, Sequences, FiniteSets, TLC

VARIABLES
    cfg,        \* the arguments the network was constructed with (in the
                \* logger's construction: the arguments of the logger)
    model,      \* the constructed network: the attributes __init__ sets
    out,        \* what the latest forward call did and returned
    prev,       \* what the forward call before it did and returned
    ncalls,     \* the number of forward calls made so far
    lg,         \* the MLFlowLogger's attributes
    srv,        \* the tracking server behind the MlflowClient
    obs,        \* the latest logger operation: its arguments, the client
                \* calls it made and the warnings it emitted
    cb          \* the trainer's ModelCheckpoint callback and the checkpoint
                \* files it has written

netvars == <<cfg, model, out, prev, ncalls>>

logvars == <<lg, srv, obs, cb>>

vars == <<cfg, model, out, prev, ncalls, lg, srv, obs, cb>>

(***************************************************************************)
(* Bounds of the model.                                                    *)
(***************************************************************************)
\* feature values range over 0..MaxVal
MaxVal == 1
\* forward is called at most MaxCalls times in a behaviour
MaxCalls == 2
\* the pyramids handed to the fusion on its own have at most MaxLevels levels
MaxLevels == 3

Vals == 0..MaxVal

RECURSIVE Pow2(_)
Pow2(k) == IF k = 0 THEN 1 ELSE 2 * Pow2(k - 1)

Max(a, b) == IF a >= b THEN a ELSE b

Reverse(s) == [i \in 1..Len(s) |-> s[Len(s) + 1 - i]]

\* all sequences over S of length exactly n
SeqsOfLen(S, n) == [1..n -> S]

\* a Python value that is either a result or a raised exception
Ok(v) == [kind |-> "ok", val |-> v]
Raise(e) == [kind |-> e, val |-> <<>>]

(***************************************************************************)
(* torch operations used by the fusion.                                    *)
(***************************************************************************)
\* torch.cat([a, b], dim=1): every dimension but dim 1 must agree
TorchCat(a, b) ==
    IF a.b = b.b /\ a.h = b.h /\ a.w = b.w
    THEN Ok([b |-> a.b, h |-> a.h, w |-> a.w, ch |-> a.ch \o b.ch])
    ELSE Raise("RuntimeError")

\* two sizes broadcast when they are equal or one of them is 1
Broadcastable(m, n) == m = n \/ m = 1 \/ n = 1

\* (mutant) |a - b| in place of a - b
TorchSub_Abs(a, b) ==
    IF /\ Broadcastable(a.b, b.b)
       /\ Broadcastable(a.h, b.h)
       /\ Broadcastable(a.w, b.w)
       /\ Broadcastable(Len(a.ch), Len(b.ch))
    THEN Ok([b |-> Max(a.b, b.b), h |-> Max(a.h, b.h), w |-> Max(a.w, b.w),
             ch |-> [k \in 1..Max(Len(a.ch), Len(b.ch)) |->
                        LET d == a.ch[IF Len(a.ch) = 1 THEN 1 ELSE k]
                                 - b.ch[IF Len(b.ch) = 1 THEN 1 ELSE k]
                        IN  IF d < 0 THEN -d ELSE d]])
    ELSE Raise("RuntimeError")

\* a - b on tensors: element-wise, with broadcasting on every dimension
TorchSub(a, b) ==
    IF /\ Broadcastable(a.b, b.b)
       /\ Broadcastable(a.h, b.h)
       /\ Broadcastable(a.w, b.w)
       /\ Broadcastable(Len(a.ch), Len(b.ch))
    THEN Ok([b |-> Max(a.b, b.b), h |-> Max(a.h, b.h), w |-> Max(a.w, b.w),
             ch |-> [k \in 1..Max(Len(a.ch), Len(b.ch)) |->
                        a.ch[IF Len(a.ch) = 1 THEN 1 ELSE k]
                        - b.ch[IF Len(b.ch) = 1 THEN 1 ELSE k]]])
    ELSE Raise("RuntimeError")

(***************************************************************************)
(* Feature fusion: the list comprehension and the insert of forward.       *)
(***************************************************************************)
\* (mutant) the concatenation with T0's level first
CombineConc_T0First(f2, f1) == TorchCat(f1, f2)

\* torch.cat([features2[i], features1[i]], dim=1)
CombineConc(f2, f1) == TorchCat(f2, f1)

\* (mutant) the difference taken as T0 - T1
CombineDiff_Reversed(f2, f1) == TorchSub(f1, f2)

\* features2[i] - features1[i]
CombineDiff(f2, f1) == TorchSub(f2, f1)

\* the operation of the class: "conc" for FCSiamConc, "diff" for FCSiamDiff
Combine(variant, f2, f1) ==
    IF variant = "conc" THEN CombineConc(f2, f1) ELSE CombineDiff(f2, f1)

\* One element of [op(features2[i], features1[i]) for i in range(1, len(features1))]
\* (i is the 1-based position here): features2[i] is read first and raises
\* IndexError past the end of features2.
LevelAt(variant, features1, features2, i) ==
    IF i > Len(features2) THEN Raise("IndexError")
    ELSE Combine(variant, features2[i], features1[i])

\* (mutant) level 0 taken from T0's pyramid
InsertedLevel_T0(features1, features2) == features1[1]

\* the level that features.insert(0, .) puts first
InsertedLevel(features1, features2) == features2[1]

\* The comprehension builds its elements in order and the first exception
\* ends it; the insert then reads features2[0].
FuseWith(variant, features1, features2) ==
    LET bad == {i \in 2..Len(features1) :
                   LevelAt(variant, features1, features2, i).kind # "ok"}
    IN  IF bad # {}
        THEN Raise(LevelAt(variant, features1, features2,
                           CHOOSE i \in bad : \A j \in bad : i <= j).kind)
        ELSE IF Len(features2) = 0 THEN Raise("IndexError")
        ELSE Ok(<<InsertedLevel(features1, features2)>>
                \o [k \in 1..(Len(features1) - 1) |->
                       LevelAt(variant, features1, features2, k + 1).val])

FuseConc(features1, features2) == FuseWith("conc", features1, features2)

FuseDiff(features1, features2) == FuseWith("diff", features1, features2)

(***************************************************************************)
(* The collaborators: encoder, U-Net decoder and segmentation head.        *)
(***************************************************************************)
\* The encoder's stages: level 0 keeps the input's resolution and each
\* further level halves it: [(N, C, H, W), (N, C, H // 2, W // 2), ...].
\* An image is known by the channel values resp[i] the encoder, with its
\* parameters frozen, computes from it at every level.  An encoder that does
\* not keep this contract (enc.staged false) is known by the pyramid it
\* returns for the image.
Encoder(enc, img) ==
    IF enc.staged
    THEN [i \in 1..(enc.depth + 1) |->
            [b |-> img.b, h |-> img.h \div Pow2(i - 1), w |-> img.w \div Pow2(i - 1),
             ch |-> img.resp[i]]]
    ELSE img.resp

\* UnetDecoder(encoder_channels, decoder_channels, n_blocks): the first
\* encoder level is dropped, the rest reversed; block i takes in_channels[i]
\* channels from below and skip_channels[i] from its skip connection.
UnetDecoder(encoder_channels, decoder_channels, n_blocks) ==
    LET ec == Reverse(Tail(encoder_channels))
    IN  [n_blocks |-> n_blocks,
         in_channels |-> <<ec[1]>> \o SubSeq(decoder_channels, 1, n_blocks - 1),
         skip_channels |-> Tail(ec) \o <<0>>,
         out_channels |-> decoder_channels]

\* The decoder's blocks from block i on: upsample by 2, concatenate the skip
\* connection when there is one, convolve to out_channels[i].
RECURSIVE DecoderBlocks(_, _, _, _)
DecoderBlocks(dec, t, skips, i) ==
    IF i > dec.n_blocks THEN Ok(t)
    ELSE LET hasSkip == i <= Len(skips)
             up == [b |-> t.b, c |-> t.c, h |-> 2 * t.h, w |-> 2 * t.w]
             cin == up.c + (IF hasSkip THEN Len(skips[i].ch) ELSE 0)
         IN  IF hasSkip /\ ~(skips[i].b = up.b /\ skips[i].h = up.h
                             /\ skips[i].w = up.w)
             THEN Raise("RuntimeError")
             ELSE IF cin # dec.in_channels[i] + dec.skip_channels[i]
             THEN Raise("RuntimeError")
             ELSE DecoderBlocks(dec, [up EXCEPT !.c = dec.out_channels[i]],
                                skips, i + 1)

\* decoder(*features): a dense map at the resolution of the input
DecoderForward(dec, features) ==
    LET feats == Reverse(Tail(features))
    IN  IF Len(feats) = 0 THEN Raise("IndexError")
        ELSE DecoderBlocks(dec,
                 [b |-> feats[1].b, c |-> Len(feats[1].ch),
                  h |-> feats[1].h, w |-> feats[1].w],
                 Tail(feats), 1)

\* SegmentationHead(in_channels, out_channels, kernel_size=3): a convolution
\* that keeps the resolution and projects to out_channels channels
SegmentationHead(head, t) ==
    IF t.c # head.in_channels THEN Raise("RuntimeError")
    ELSE Ok([b |-> t.b, c |-> head.out_channels, h |-> t.h, w |-> t.w])

(***************************************************************************)
(* Construction.                                                           *)
(***************************************************************************)
\* (mutant) every level doubled, level 0 included
EncoderOutChannelsConc_AllDoubled(out_channels) ==
    [k \in 1..Len(out_channels) |-> out_channels[k] * 2]

\* encoder_out_channels of FCSiamConc.__init__
EncoderOutChannelsConc(out_channels) ==
    <<out_channels[1]>> \o [k \in 1..(Len(out_channels) - 1) |-> out_channels[k + 1] * 2]

\* (mutant) the head keeps the decoder's width instead of projecting to classes
HeadInit_NoClasses(decoder_channels, classes) ==
    [in_channels |-> decoder_channels[Len(decoder_channels)],
     out_channels |-> decoder_channels[Len(decoder_channels)]]

\* the segmentation head both constructors build
HeadInit(decoder_channels, classes) ==
    [in_channels |-> decoder_channels[Len(decoder_channels)], out_channels |-> classes]

\* FCSiamConc.__init__; params stands for the learned parameters
FCSiamConcInit(out_channels, encoder_depth, decoder_channels, classes) ==
    [variant |-> "conc",
     encoder |-> [out_channels |-> out_channels, depth |-> encoder_depth,
                  staged |-> TRUE],
     decoder |-> UnetDecoder(EncoderOutChannelsConc(out_channels),
                             decoder_channels, encoder_depth),
     decoder_in |-> EncoderOutChannelsConc(out_channels),
     segmentation_head |-> HeadInit(decoder_channels, classes),
     params |-> 0]

\* FCSiamDiff.__init__: Unet's own construction, the decoder taking the
\* encoder's channel counts as they are
FCSiamDiffInit(out_channels, encoder_depth, decoder_channels, classes) ==
    [variant |-> "diff",
     encoder |-> [out_channels |-> out_channels, depth |-> encoder_depth,
                  staged |-> TRUE],
     decoder |-> UnetDecoder(out_channels, decoder_channels, encoder_depth),
     decoder_in |-> out_channels,
     segmentation_head |-> HeadInit(decoder_channels, classes),
     params |-> 0]

(***************************************************************************)
(* forward.                                                                *)
(***************************************************************************)
\* x[:, t] of a batch of shape (b, 2, c, h, w)
TimeSlice(x, t) == [b |-> x.b, h |-> x.h, w |-> x.w, resp |-> x.t[t + 1]]

NoMask == [shape |-> <<>>, by |-> -1, of |-> <<>>]

NoCall ==
    [status |-> "none", x |-> <<>>, enc_calls |-> <<>>, features1 |-> <<>>,
     features2 |-> <<>>, features |-> <<>>, decoder_args |-> <<>>, masks |-> NoMask]

\* The statements of forward after the fusion: decoder, then head.  The mask
\* is known by its shape, the parameters and the pyramid it was decoded from.
DecodeAndHead(m, call, fused) ==
    IF fused.kind # "ok" THEN [call EXCEPT !.status = fused.kind]
    ELSE LET decoder_output == DecoderForward(m.decoder, fused.val)
             head == IF decoder_output.kind = "ok"
                     THEN SegmentationHead(m.segmentation_head, decoder_output.val)
                     ELSE decoder_output
         IN  [call EXCEPT
                 !.features = fused.val,
                 !.decoder_args = fused.val,
                 !.status = head.kind,
                 !.masks = IF head.kind = "ok"
                           THEN [shape |-> <<head.val.b, head.val.c,
                                             head.val.h, head.val.w>>,
                                 by |-> m.params, of |-> fused.val]
                           ELSE NoMask]

\* the two encoder calls of forward, in the order the code makes them
EncoderCalls(x) ==
    <<[module |-> "encoder", input |-> TimeSlice(x, 0)],
      [module |-> "encoder", input |-> TimeSlice(x, 1)]>>

StartCall(m, x) ==
    LET x1 == TimeSlice(x, 0)
        x2 == TimeSlice(x, 1)
    IN  [NoCall EXCEPT !.x = x,
                       !.enc_calls = EncoderCalls(x),
                       !.features1 = Encoder(m.encoder, x1),
                       !.features2 = Encoder(m.encoder, x2)]

\* FCSiamConc.forward
FCSiamConcForward(m, x) ==
    LET call == StartCall(m, x)
    IN  DecodeAndHead(m, call, FuseConc(call.features1, call.features2))

\* FCSiamDiff.forward
FCSiamDiffForward(m, x) ==
    LET call == StartCall(m, x)
    IN  DecodeAndHead(m, call, FuseDiff(call.features1, call.features2))

Forward(m, x) ==
    IF m.variant = "conc" THEN FCSiamConcForward(m, x) ELSE FCSiamDiffForward(m, x)

\* (mutant) forward updates a stored attribute
ModelAfterForward_Writes(m) == [m EXCEPT !.params = 1 - m.params]

\* the network's attributes after a forward call: forward assigns none
ModelAfterForward(m) == m

(***************************************************************************)
(* The networks and batches the model is run on.                           *)
(***************************************************************************)
\* encoder.out_channels, one count per level; the depth is its length - 1
ChannelConfigs == {<<1, 2>>, <<2, 1>>, <<1, 1, 1>>}

\* decoder_channels for a depth: one width per decoder block
DecoderChannelsFor(depth) == IF depth = 1 THEN <<2>> ELSE <<3, 2>>

ClassCounts == {1, 2}

\* constructor arguments: the class, the encoder's out_channels (what
\* encoder_name, in_channels and encoder_depth select), decoder_channels, classes
Configs ==
    {[variant |-> v, out_channels |-> oc, encoder_depth |-> Len(oc) - 1,
      decoder_channels |-> DecoderChannelsFor(Len(oc) - 1), classes |-> cl] :
        v \in {"conc", "diff"}, oc \in ChannelConfigs, cl \in ClassCounts}

Construct(c) ==
    IF c.variant = "conc"
    THEN FCSiamConcInit(c.out_channels, c.encoder_depth, c.decoder_channels, c.classes)
    ELSE FCSiamDiffInit(c.out_channels, c.encoder_depth, c.decoder_channels, c.classes)

\* (h, w) of a batch; (6, 4) does not halve twice
SpatialSizes == {<<4, 4>>, <<4, 8>>, <<6, 4>>}

BatchSizes == {1, 2}

\* what the encoder makes of one image: channel values for every level
Responses(out_channels) ==
    {r \in [1..Len(out_channels) -> UNION {SeqsOfLen(Vals, n) : n \in 1..2}] :
        \A i \in 1..Len(out_channels) : Len(r[i]) = out_channels[i]}

Batches(m) ==
    {[b |-> b, h |-> hw[1], w |-> hw[2], t |-> <<r0, r1>>] :
        b \in BatchSizes, hw \in SpatialSizes,
        r0 \in Responses(m.encoder.out_channels),
        r1 \in Responses(m.encoder.out_channels)}

\* the batch with its two acquisition times exchanged
SwapTimes(x) == [x EXCEPT !.t = <<x.t[2], x.t[1]>>]

(***************************************************************************)
(* The network's behaviours: a first forward call on any batch, then       *)
(* further calls on the same batch or on the batch with its times swapped. *)
(***************************************************************************)
\* no logger is in use
LoggerIdle == lg = <<>> /\ srv = <<>> /\ obs = <<>> /\ cb = <<>>

NetInit ==
    /\ cfg \in Configs
    /\ model = Construct(cfg)
    /\ out = NoCall
    /\ prev = NoCall
    /\ ncalls = 0
    /\ LoggerIdle

Call(x) ==
    /\ ncalls < MaxCalls
    /\ out' = Forward(model, x)
    /\ prev' = out
    /\ model' = ModelAfterForward(model)
    /\ ncalls' = ncalls + 1
    /\ UNCHANGED <<cfg, logvars>>

ForwardFirst == ncalls = 0 /\ \E x \in Batches(model) : Call(x)

ForwardSame == ncalls > 0 /\ Call(out.x)

ForwardSwapped == ncalls > 0 /\ Call(SwapTimes(out.x))

NetNext == ForwardFirst \/ ForwardSame \/ ForwardSwapped

SpecNet == NetInit /\ [][NetNext]_vars

(***************************************************************************)
(* The fusion on pyramids that do not match: forward with an encoder that  *)
(* returns, for the two times, pyramids of any lengths and shapes.         *)
(***************************************************************************)
LevelSamples ==
    {[b |-> 1, h |-> 2, w |-> 2, ch |-> <<1>>],
     [b |-> 1, h |-> 2, w |-> 2, ch |-> <<0, 1>>],
     [b |-> 1, h |-> 1, w |-> 1, ch |-> <<1>>],
     [b |-> 2, h |-> 2, w |-> 2, ch |-> <<1>>]}

\* an encoder of depth >= 1 returns at least two levels
Pyramids == UNION {SeqsOfLen(LevelSamples, n) : n \in 2..MaxLevels}

FusionInit ==
    /\ cfg \in Configs
    /\ model = [Construct(cfg) EXCEPT !.encoder.staged = FALSE]
    /\ out = NoCall
    /\ prev = NoCall
    /\ ncalls = 0
    /\ LoggerIdle

ForwardOnPyramids ==
    /\ ncalls = 0
    /\ \E p0 \in Pyramids, p1 \in Pyramids :
          Call([b |-> p0[1].b, h |-> p0[1].h, w |-> p0[1].w, t |-> <<p0, p1>>])

FusionNext == ForwardOnPyramids

SpecFusion == FusionInit /\ [][FusionNext]_vars

(***************************************************************************)
(* The MLflow logger (xp/mlflow_logger.py).                                *)
(*                                                                         *)
(* A str is the sequence of its characters, each a one-character string;   *)
(* an Optional value is <<>> for None and <<v>> for the value v; a dict is *)
(* the sequence of its items [k |-> key, v |-> value] in insertion order.  *)
(* A metric value is [type |-> "float" or "str", val |-> n]: the number n, *)
(* or the n-th of some strings; the types "none", "list" and "dict" stand  *)
(* for None, a list and a dict.                                            *)
(***************************************************************************)
\* a metrics dict of the model has at most MaxMetrics items
MaxMetrics == 2

None == <<>>
Some(v) == <<v>>

LowerCase ==
    {"a", "b", "c", "d", "e", "f", "g", "h", "i", "j", "k", "l", "m",
     "n", "o", "p", "q", "r", "s", "t", "u", "v", "w", "x", "y", "z"}

UpperCase ==
    {"A", "B", "C", "D", "E", "F", "G", "H", "I", "J", "K", "L", "M",
     "N", "O", "P", "Q", "R", "S", "T", "U", "V", "W", "X", "Y", "Z"}

Digits == {"0", "1", "2", "3", "4", "5", "6", "7", "8", "9"}

\* (mutant) the character class without the blank and the hyphen
MetricNameChars_NoBlankHyphen == LowerCase \cup UpperCase \cup Digits \cup {"_", "/", "."}

\* the characters of the class [a-zA-Z0-9_/. -]
MetricNameChars == LowerCase \cup UpperCase \cup Digits \cup {"_", "/", ".", " ", "-"}

\* re.sub("[^a-zA-Z0-9_/. -]+", "", k): every run of characters outside
\* the class is replaced by nothing
ReSubMetricName(k) == SelectSeq(k, LAMBDA c : c \in MetricNameChars)

\* LOGGER_JOIN_CHAR
LOGGER_JOIN_CHAR == <<"-">>

\* _add_prefix(metrics, prefix, separator): with a prefix every key becomes
\* prefix + separator + key
AddPrefix(metrics, prefix, separator) ==
    IF prefix = <<>> THEN metrics
    ELSE [i \in 1..Len(metrics) |->
             [k |-> prefix \o separator \o metrics[i].k, v |-> metrics[i].v]]

\* (mutant) no value is taken for a string
IsStrValue_Never(v) == FALSE

\* isinstance(v, str)
IsStrValue(v) == v.type = "str"

\* step or 0
StepOrZero(step) == IF step = None \/ step[1] = 0 THEN 0 ELSE step[1]

\* The loop of log_metrics over metrics.items(), from item i on; acc holds
\* metrics_list and the warnings emitted so far.
RECURSIVE MetricsLoop(_, _, _, _, _)
MetricsLoop(items, i, timestamp_ms, step, acc) ==
    IF i > Len(items) THEN acc
    ELSE LET k == items[i].k
             v == items[i].v
             new_k == ReSubMetricName(k)
         IN  IF IsStrValue(v)
             THEN MetricsLoop(items, i + 1, timestamp_ms, step,
                      [acc EXCEPT !.warnings =
                          Append(@, [kind |-> "discard", k |-> k, to |-> k])])
             ELSE MetricsLoop(items, i + 1, timestamp_ms, step,
                      [metrics_list |->
                           Append(acc.metrics_list,
                                  [key |-> IF k # new_k THEN new_k ELSE k,
                                   value |-> v,
                                   timestamp |-> timestamp_ms,
                                   step |-> StepOrZero(step)]),
                       warnings |->
                           IF k # new_k
                           THEN Append(acc.warnings,
                                       [kind |-> "rename", k |-> k, to |-> new_k])
                           ELSE acc.warnings])

\* metrics_list and the warnings log_metrics builds before it calls the client
BuildMetrics(l, metrics, step, timestamp_ms) ==
    MetricsLoop(AddPrefix(metrics, l._prefix, LOGGER_JOIN_CHAR), 1, timestamp_ms,
                step, [metrics_list |-> <<>>, warnings |-> <<>>])

\* MLFLOW_RUN_NAME
MLFLOW_RUN_NAME == "mlflow.runName"

\* (mutant) a key the dict already holds keeps its value
DictSet_KeepOld(d, key, value) ==
    IF \E i \in 1..Len(d) : d[i].k = key
    THEN d
    ELSE Append(d, [k |-> key, v |-> value])

\* d[key] = value on a dict
DictSet(d, key, value) ==
    IF \E i \in 1..Len(d) : d[i].k = key
    THEN [i \in 1..Len(d) |-> IF d[i].k = key THEN [k |-> key, v |-> value] ELSE d[i]]
    ELSE Append(d, [k |-> key, v |-> value])

\* resolve_tags(tags): the tags inferred from the context, overridden and
\* extended by the tags given (None counts as no tags)
RECURSIVE ResolveTags(_, _)
ResolveTags(context, tags) ==
    IF tags = None \/ tags[1] = <<>> THEN context
    ELSE ResolveTags(DictSet(context, tags[1][1].k, tags[1][1].v), Some(Tail(tags[1])))

\* The set-up of a new run: the experiment is looked up by name, and created
\* when there is none; the run is created with the resolved tags.
CreateRun(l, s) ==
    LET lookup == l._experiment_id = None
        create == lookup /\ ~s.has_experiment
        experiment_id ==
            IF ~lookup THEN l._experiment_id
            ELSE IF s.has_experiment THEN Some("e0") ELSE Some("e1")
        tags == IF l._run_name # None
                THEN Some(DictSet(IF l.tags = None THEN <<>> ELSE l.tags[1],
                                  MLFLOW_RUN_NAME, l._run_name[1]))
                ELSE l.tags
        override == /\ l._run_name # None
                    /\ l.tags # None
                    /\ \E i \in 1..Len(l.tags[1]) : l.tags[1][i].k = MLFLOW_RUN_NAME
        rtags == ResolveTags(s.context_tags, tags)
    IN  [lg |-> [l EXCEPT !._experiment_id = experiment_id,
                          !.tags = tags,
                          !._run_id = Some("r1"),
                          !._initialized = TRUE],
         srv |-> [s EXCEPT !.has_experiment = TRUE,
                           !.runs = [r \in DOMAIN s.runs \cup {"r1"} |->
                                        IF r = "r1" THEN experiment_id[1]
                                        ELSE s.runs[r]],
                           !.n_create_experiment = @ + (IF create THEN 1 ELSE 0),
                           !.n_create_run = @ + 1],
         calls |->
             (IF lookup
              THEN <<[fn |-> "get_experiment_by_name", run_id |-> None, arg |-> <<>>]>>
              ELSE <<>>)
             \o (IF create
                 THEN <<[fn |-> "create_experiment", run_id |-> None, arg |-> <<>>]>>
                 ELSE <<>>)
             \o <<[fn |-> "create_run", run_id |-> None, arg |-> rtags]>>,
         warnings |->
             (IF create THEN <<[kind |-> "experiment_not_found", k |-> <<>>, to |-> <<>>]>>
              ELSE <<>>)
             \o (IF override
                 THEN <<[kind |-> "run_name_override", k |-> <<>>, to |-> <<>>]>>
                 ELSE <<>>)]

\* (mutant) the set-up is made at every access
Experiment_EveryAccess(l, s) == CreateRun(l, s)

\* The experiment property: the client, after the lazy set-up of experiment
\* and run.  The result holds the logger and the server after the access,
\* the client calls made and the warnings logged.
Experiment(l, s) ==
    IF l._initialized
    THEN [lg |-> l, srv |-> s, calls |-> <<>>, warnings |-> <<>>]
    ELSE IF l._run_id # None
    THEN [lg |-> [l EXCEPT !._experiment_id = Some(s.runs[l._run_id[1]]),
                           !._initialized = TRUE],
          srv |-> s,
          calls |-> <<[fn |-> "get_run", run_id |-> l._run_id, arg |-> <<>>]>>,
          warnings |-> <<>>]
    ELSE CreateRun(l, s)

\* the record of an operation: raised is the exception that left it, result
\* the value it returned
NoObs ==
    [op |-> "none", metrics |-> <<>>, step |-> None, timestamp_ms |-> 0,
     calls |-> <<>>, warnings |-> <<>>, raised |-> None, result |-> None,
     params |-> <<>>, status |-> ""]

\* MlflowClient.log_batch(run_id, metrics=metrics_list): the client takes a
\* batch of numbers; given a value that is no number it either raises or
\* sends the value on, depending on the store behind it
LogBatchOutcomes(metrics_list) ==
    IF \A j \in 1..Len(metrics_list) : metrics_list[j].value.type = "float"
    THEN {None}
    ELSE {None, Some("MlflowException")}

\* log_metrics(metrics, step) at the time timestamp_ms
LogMetricsCall(metrics, step, timestamp_ms) ==
    LET built == BuildMetrics(lg, metrics, step, timestamp_ms)
        e == Experiment(lg, srv)
    IN  /\ lg' = e.lg
        /\ srv' = e.srv
        /\ \E r \in LogBatchOutcomes(built.metrics_list) :
              obs' = [NoObs EXCEPT
                         !.op = "log_metrics", !.metrics = metrics, !.step = step,
                         !.timestamp_ms = timestamp_ms,
                         !.calls = e.calls
                                   \o <<[fn |-> "log_batch", run_id |-> e.lg._run_id,
                                         arg |-> built.metrics_list]>>,
                         !.warnings = built.warnings \o e.warnings,
                         !.raised = r]

(***************************************************************************)
(* The loggers and the calls the model makes on them.                      *)
(***************************************************************************)
MetricNames ==
    {<<"l", "o", "s", "s", "/", "v", "a", "l", " ", "s", "t", "e", "p", "-", "1">>,
     <<"l", "o", "s", "s", "@", "v", "a", "l", "#", "1">>,
     <<"a">>, <<"a", "@">>, <<"#", "@">>}

MetricValues == {[type |-> "float", val |-> 1], [type |-> "str", val |-> 1]}

MetricItems == {[k |-> k, v |-> v] : k \in MetricNames, v \in MetricValues}

\* the dicts of at most MaxMetrics items: no key twice
MetricDicts ==
    {d \in UNION {SeqsOfLen(MetricItems, n) : n \in 0..MaxMetrics} :
        \A i \in 1..Len(d) : \A j \in 1..Len(d) : i # j => d[i].k # d[j].k}

\* dicts that hold a value that is neither a number nor a string
NonNumericValues ==
    {[type |-> "none", val |-> 0], [type |-> "list", val |-> 1],
     [type |-> "dict", val |-> 1]}

NonNumericDicts ==
    {<<[k |-> <<"a">>, v |-> v]>> : v \in NonNumericValues}
    \cup {<<[k |-> <<"a">>, v |-> [type |-> "float", val |-> 1]],
            [k |-> <<"b">>, v |-> v]>> : v \in NonNumericValues}

Steps == {None, Some(0), Some(5)}

Timestamps == {1000, 2000}

TagDicts ==
    {None, Some(<<>>),
     Some(<<[k |-> MLFLOW_RUN_NAME, v |-> <<"o">>], [k |-> "owner", v |-> <<"m">>]>>)}

\* LOCAL_FILE_URI_PREFIX
LOCAL_FILE_URI_PREFIX == <<"f", "i", "l", "e", ":">>

\* f"{v}" of an Optional[str]: None is formatted as the word None
FormatOptionalStr(v) == IF v = None THEN <<"N", "o", "n", "e">> ELSE v[1]

\* a logger none of whose attributes is set
NoLogger == <<>>

\* the defaults of __init__'s parameters; log_model is "False", "True" or
\* "all" for False, True and "all"
DefaultArgs ==
    [run_name |-> None, tracking_uri |-> None, tags |-> None,
     save_dir |-> Some(<<".", "/", "m", "l", "r", "u", "n", "s">>),
     log_model |-> "False", prefix |-> <<>>, run_id |-> None]

\* (mutant) the attributes are set and the client is created before the
\* check of _MLFLOW_AVAILABLE
MLFlowLoggerInit_CheckLast(available, a) ==
    LET tracking_uri ==
            IF a.tracking_uri = None \/ a.tracking_uri[1] = <<>>
            THEN LOCAL_FILE_URI_PREFIX \o FormatOptionalStr(a.save_dir)
            ELSE a.tracking_uri[1]
    IN  [raised |-> IF available THEN None ELSE Some("ModuleNotFoundError"),
         lg |-> [_experiment_id |-> None, _tracking_uri |-> tracking_uri,
                 _run_name |-> a.run_name, _run_id |-> a.run_id, tags |-> a.tags,
                 _log_model |-> a.log_model, _logged_model_time |-> <<>>,
                 _checkpoint_callback |-> None, _prefix |-> a.prefix,
                 _initialized |-> FALSE],
         calls |-> <<[fn |-> "MlflowClient", run_id |-> None, arg |-> tracking_uri]>>]

\* MLFlowLogger.__init__ with the arguments a, mlflow being installed
\* (available) or not: the exception raised if any, the attributes set and
\* the client constructions made
MLFlowLoggerInit(available, a) ==
    IF ~available
    THEN [raised |-> Some("ModuleNotFoundError"), lg |-> NoLogger, calls |-> <<>>]
    ELSE LET tracking_uri ==
                 IF a.tracking_uri = None \/ a.tracking_uri[1] = <<>>
                 THEN LOCAL_FILE_URI_PREFIX \o FormatOptionalStr(a.save_dir)
                 ELSE a.tracking_uri[1]
         IN  [raised |-> None,
              lg |-> [_experiment_id |-> None, _tracking_uri |-> tracking_uri,
                      _run_name |-> a.run_name, _run_id |-> a.run_id, tags |-> a.tags,
                      _log_model |-> a.log_model, _logged_model_time |-> <<>>,
                      _checkpoint_callback |-> None, _prefix |-> a.prefix,
                      _initialized |-> FALSE],
              calls |-> <<[fn |-> "MlflowClient", run_id |-> None, arg |-> tracking_uri]>>]

\* the tracking server before the logger's first call: it knows run r0 of
\* experiment e0, and may know the logger's experiment name
Servers ==
    {[has_experiment |-> has, runs |-> [r \in {"r0"} |-> "e0"],
      context_tags |-> <<[k |-> "mlflow.user", v |-> <<"u">>]>>,
      n_create_experiment |-> 0, n_create_run |-> 0,
      artifacts |-> <<>>, run_status |-> <<>>] : has \in BOOLEAN}

\* no ModelCheckpoint callback is in use
NoCallback == <<>>

\* the logger after __init__, and the server it is pointed at
LoggerInit ==
    /\ \E run_name \in {None, Some(<<"n">>)}, run_id \in {None, Some("r0")},
          tags \in TagDicts, prefix \in {<<>>, <<"p">>} :
          lg = MLFlowLoggerInit(TRUE, [DefaultArgs EXCEPT !.run_name = run_name,
                                                          !.run_id = run_id,
                                                          !.tags = tags,
                                                          !.prefix = prefix]).lg
    /\ srv \in Servers
    /\ obs = NoObs
    /\ cb = NoCallback
    /\ cfg = <<>> /\ model = <<>> /\ out = NoCall /\ prev = NoCall /\ ncalls = 0

\* an access to logger.experiment (or run_id, experiment_id, name, version)
AccessExperiment ==
    /\ obs.op = "none"
    /\ LET e == Experiment(lg, srv)
       IN  /\ lg' = e.lg
           /\ srv' = e.srv
           /\ obs' = [NoObs EXCEPT !.op = "experiment", !.calls = e.calls,
                                   !.warnings = e.warnings,
                                   !.result = Some("client")]
    /\ UNCHANGED <<netvars, cb>>

LogMetrics ==
    /\ obs.op = "none"
    /\ \E metrics \in MetricDicts, step \in Steps, timestamp_ms \in Timestamps :
          LogMetricsCall(metrics, step, timestamp_ms)
    /\ UNCHANGED <<netvars, cb>>

\* log_metrics on a dict that holds None, a list or a dict
LogMetricsNonNumeric ==
    /\ obs.op = "none"
    /\ \E metrics \in NonNumericDicts, step \in Steps, timestamp_ms \in Timestamps :
          LogMetricsCall(metrics, step, timestamp_ms)
    /\ UNCHANGED <<netvars, cb>>

\* the observation of an operation is taken away before the next one
Observed ==
    /\ obs.op # "none"
    /\ obs' = NoObs
    /\ UNCHANGED <<lg, srv, cb, netvars>>

LoggerNext == AccessExperiment \/ LogMetrics \/ LogMetricsNonNumeric \/ Observed

SpecLogger == LoggerInit /\ [][LoggerNext]_vars

(***************************************************************************)
(* Checkpoints.  The ModelCheckpoint callback and its files belong to the  *)
(* trainer; the logger reads the callback when it is told of a save.       *)
(* A score is [type |-> "Tensor" or "float" or "none", val |-> n]; an      *)
(* attribute value [type |-> "int" or "bool" or "str" or "none", val |-> n] *)
(* (for "str", the n-th of some strings).                                  *)
(***************************************************************************)
\* the trainer saves at most MaxSaves times in a behaviour
MaxSaves == 2

\* d[key], for a key the dict holds
DictGet(d, key) == d[CHOOSE i \in 1..Len(d) : d[i].k = key].v

\* del d[key]
DictDel(d, key) == SelectSeq(d, LAMBDA item : item.k # key)

\* the last position of the character c in s, 0 when there is none
LastIndexOf(s, c) ==
    IF \E i \in 1..Len(s) : s[i] = c
    THEN CHOOSE i \in 1..Len(s) : s[i] = c /\ \A j \in (i + 1)..Len(s) : s[j] # c
    ELSE 0

\* Path(p).name: what follows the last "/"
PathName(p) == SubSeq(p, LastIndexOf(p, "/") + 1, Len(p))

\* Path(p).stem: the name without its last suffix; a dot that begins or
\* ends the name starts no suffix
PathStem(p) ==
    LET name == PathName(p)
        dot == LastIndexOf(name, ".")
    IN  IF dot > 1 /\ dot < Len(name) THEN SubSeq(name, 1, dot - 1) ELSE name

\* the attributes _scan_and_log_checkpoints looks for on the callback
POLICY_KEYS ==
    <<"monitor", "mode", "save_last", "save_top_k", "save_weights_only",
      "_every_n_train_steps", "_every_n_val_epochs">>

\* hasattr(checkpoint_callback, k) and getattr(checkpoint_callback, k)
HasAttr(c, k) == \E i \in 1..Len(c.attrs) : c.attrs[i].k = k
GetAttr(c, k) == DictGet(c.attrs, k)

\* checkpoint_callback.save_top_k
SaveTopK(c) == GetAttr(c, "save_top_k").val

\* the checkpoint files the trainer writes
PathA == <<"d", "/", "a", "=", "1", ".", "c", "k">>
PathB == <<"d", "/", "b", ".", "1", ".", "c", "k">>
PathLast == <<"d", "/", "l", "a", "s", "t">>

CheckpointPaths == {PathA, PathB}

\* the scores the monitored quantity takes
Scores == {[type |-> "Tensor", val |-> 1], [type |-> "Tensor", val |-> 2]}

\* ModelCheckpoint(monitor=..., mode="max", save_top_k=k, save_last=...), of
\* a release that has the attribute _every_n_val_epochs (old) or not
NewCallback(k, save_last, old) ==
    [attrs |->
         <<[k |-> "monitor", v |-> [type |-> "str", val |-> 1]],
           [k |-> "mode", v |-> [type |-> "str", val |-> 2]],
           [k |-> "save_last", v |-> [type |-> "bool", val |-> IF save_last THEN 1 ELSE 0]],
           [k |-> "save_top_k", v |-> [type |-> "int", val |-> k]],
           [k |-> "save_weights_only", v |-> [type |-> "bool", val |-> 0]],
           [k |-> "_every_n_train_steps", v |-> [type |-> "int", val |-> 0]]>>
         \o (IF old
             THEN <<[k |-> "_every_n_val_epochs", v |-> [type |-> "int", val |-> 1]]>>
             ELSE <<>>),
     best_model_path |-> <<>>,
     best_model_score |-> [type |-> "none", val |-> 0],
     last_model_path |-> <<>>,
     current_score |-> [type |-> "none", val |-> 0],
     best_k_models |-> <<>>,
     files |-> <<>>,
     clock |-> 0,
     nsaves |-> 0]

Callbacks ==
    {NewCallback(0 - 1, FALSE, FALSE), NewCallback(1, TRUE, TRUE),
     NewCallback(2, FALSE, FALSE)}

\* the path of the lowest (Worst) and of the highest (Best) score among the
\* items of best_k_models, the earliest of them when several tie
WorstPath(best_k) ==
    best_k[CHOOSE i \in 1..Len(best_k) :
               /\ \A j \in 1..Len(best_k) : best_k[i].v.val <= best_k[j].v.val
               /\ \A j \in 1..(i - 1) : best_k[j].v.val > best_k[i].v.val].k

BestPath(best_k) ==
    best_k[CHOOSE i \in 1..Len(best_k) :
               /\ \A j \in 1..Len(best_k) : best_k[i].v.val >= best_k[j].v.val
               /\ \A j \in 1..(i - 1) : best_k[j].v.val < best_k[i].v.val].k

\* The callback after the trainer's validation gave score: the checkpoint p
\* is written when it is among the save_top_k best (always for -1), the
\* checkpoint it displaces is deleted, and with save_last a copy is
\* written to PathLast.  Every write has its own time.
CallbackAfterSave(c, p, score) ==
    LET k == SaveTopK(c)
        full == k > 0 /\ Len(c.best_k_models) = k
        saved == \/ k = 0 - 1
                 \/ ~full
                 \/ score.val > DictGet(c.best_k_models, WorstPath(c.best_k_models)).val
        del == IF saved /\ full THEN Some(WorstPath(c.best_k_models)) ELSE None
        kept == IF del = None THEN c.best_k_models ELSE DictDel(c.best_k_models, del[1])
        best_k == IF saved THEN DictSet(kept, p, score) ELSE c.best_k_models
        files1 == IF del # None /\ del[1] # p THEN DictDel(c.files, del[1]) ELSE c.files
        files2 == IF saved THEN DictSet(files1, p, c.clock + 1) ELSE files1
        last == GetAttr(c, "save_last").val = 1
    IN  [c EXCEPT !.current_score = score,
                  !.best_k_models = best_k,
                  !.best_model_path = IF best_k = <<>> THEN @ ELSE BestPath(best_k),
                  !.best_model_score =
                      IF best_k = <<>> THEN @ ELSE DictGet(best_k, BestPath(best_k)),
                  !.files = IF last THEN DictSet(files2, PathLast, c.clock + 2) ELSE files2,
                  !.last_model_path = IF last THEN PathLast ELSE @,
                  !.clock = c.clock + 2,
                  !.nsaves = c.nsaves + 1]

\* checkpoints[key] = (score, tag) for every key of best_k_models
RECURSIVE SetBestK(_, _)
SetBestK(d, best_k) ==
    IF best_k = <<>> THEN d
    ELSE SetBestK(DictSet(d, best_k[1].k, [s |-> best_k[1].v, tag |-> "best_k"]),
                  Tail(best_k))

\* sorted(...) of the checkpoint tuples: by time (the times of the files
\* differ, so no two tuples are compared beyond it)
RECURSIVE SortedCheckpoints(_)
SortedCheckpoints(cps) ==
    IF cps = <<>> THEN <<>>
    ELSE LET i == CHOOSE i \in 1..Len(cps) :
                      \A j \in 1..Len(cps) :
                          cps[i].t < cps[j].t \/ (cps[i].t = cps[j].t /\ i <= j)
         IN  <<cps[i]>>
             \o SortedCheckpoints(SubSeq(cps, 1, i - 1) \o SubSeq(cps, i + 1, Len(cps)))

\* _scan_checkpoints(checkpoint_callback, logged_model_time): the last, the
\* best and the best-k checkpoints that are files, as (t, p, s, tag) in the
\* order of their times, without those already logged at their time
ScanCheckpoints(c, logged_model_time) ==
    LET d1 == DictSet(<<>>, c.last_model_path, [s |-> c.current_score, tag |-> "latest"])
        d2 == DictSet(d1, c.best_model_path, [s |-> c.best_model_score, tag |-> "best"])
        d3 == SetBestK(d2, c.best_k_models)
        files == SelectSeq(d3, LAMBDA item : \E i \in 1..Len(c.files) : c.files[i].k = item.k)
        tuples == [i \in 1..Len(files) |->
                      [t |-> DictGet(c.files, files[i].k), p |-> files[i].k,
                       s |-> files[i].v.s, tag |-> files[i].v.tag]]
        IsNew(cp) == \/ ~\E i \in 1..Len(logged_model_time) : logged_model_time[i].k = cp.p
                     \/ DictGet(logged_model_time, cp.p) < cp.t
    IN  SelectSeq(SortedCheckpoints(tuples), IsNew)

\* s.item() if isinstance(s, Tensor) else s
ScoreItem(s) == IF s.type = "Tensor" THEN [type |-> "float", val |-> s.val] ELSE s

\* the "Checkpoint" entry of the metadata: the attributes of POLICY_KEYS the
\* callback has, in that order
RECURSIVE PolicyFields(_, _)
PolicyFields(c, i) ==
    IF i > Len(POLICY_KEYS) THEN <<>>
    ELSE (IF HasAttr(c, POLICY_KEYS[i])
          THEN <<[k |-> POLICY_KEYS[i], v |-> GetAttr(c, POLICY_KEYS[i])]>>
          ELSE <<>>)
         \o PolicyFields(c, i + 1)

\* metadata of the checkpoint cp = (t, p, s, tag)
Metadata(c, cp) ==
    [score |-> ScoreItem(cp.s),
     original_filename |-> PathName(cp.p),
     Checkpoint |-> PolicyFields(c, 1)]

\* (mutant) the alias follows the tag the scan gave
Aliases_ByTag(c, cp) ==
    IF cp.tag = "best" THEN <<"latest", "best">> ELSE <<"latest">>

\* aliases of the checkpoint cp
Aliases(c, cp) ==
    IF cp.p = c.best_model_path THEN <<"latest", "best">> ELSE <<"latest">>

MODEL_CHECKPOINTS == <<"m", "o", "d", "e", "l", "/", "c", "h", "e", "c", "k", "p", "o", "i", "n", "t", "s", "/">>

\* artifact_path of the checkpoint at p
ArtifactPath(p) == MODEL_CHECKPOINTS \o PathStem(p)

\* a log_artifact(run_id, local_path, artifact_path) call: file is the name
\* of the local file, and of checkpoint, metadata and aliases one is Some
\* and tells what the file holds
LogArtifact(run_id, file, artifact_path, checkpoint, metadata, aliases) ==
    [fn |-> "log_artifact", run_id |-> run_id,
     arg |-> [file |-> file, artifact_path |-> artifact_path,
              checkpoint |-> checkpoint, metadata |-> metadata, aliases |-> aliases]]

METADATA_YAML == <<"m", "e", "t", "a", "d", "a", "t", "a", ".", "y", "a", "m", "l">>
ALIASES_TXT == <<"a", "l", "i", "a", "s", "e", "s", ".", "t", "x", "t">>

\* (mutant) the two documents are uploaded before the checkpoint
CheckpointArtifacts_DocumentsFirst(run_id, c, cp) ==
    <<LogArtifact(run_id, METADATA_YAML, ArtifactPath(cp.p), None,
                  Some(Metadata(c, cp)), None),
      LogArtifact(run_id, ALIASES_TXT, ArtifactPath(cp.p), None, None,
                  Some(Aliases(c, cp))),
      LogArtifact(run_id, PathName(cp.p), ArtifactPath(cp.p),
                  Some([p |-> cp.p, t |-> cp.t]), None, None)>>

\* the three log_artifact calls of one iteration of the loop; str(aliases)
\* is known by the list it writes out
CheckpointArtifacts(run_id, c, cp) ==
    <<LogArtifact(run_id, PathName(cp.p), ArtifactPath(cp.p),
                  Some([p |-> cp.p, t |-> cp.t]), None, None),
      LogArtifact(run_id, METADATA_YAML, ArtifactPath(cp.p), None,
                  Some(Metadata(c, cp)), None),
      LogArtifact(run_id, ALIASES_TXT, ArtifactPath(cp.p), None, None,
                  Some(Aliases(c, cp)))>>

\* (mutant) the upload is not remembered
RecordLogged_Forget(logged_model_time, p, t) == logged_model_time

\* self._logged_model_time[p] = t
RecordLogged(logged_model_time, p, t) == DictSet(logged_model_time, p, t)

\* The loop of _scan_and_log_checkpoints from checkpoint i on; acc holds the
\* logger, the server, the client calls and the warnings so far.  The first
\* self.experiment of the first iteration sets the run up.
RECURSIVE UploadLoop(_, _, _, _)
UploadLoop(checkpoints, i, c, acc) ==
    IF i > Len(checkpoints) THEN acc
    ELSE LET cp == checkpoints[i]
             e == Experiment(acc.lg, acc.srv)
             arts == CheckpointArtifacts(e.lg._run_id, c, cp)
         IN  UploadLoop(checkpoints, i + 1, c,
                 [lg |-> [e.lg EXCEPT !._logged_model_time = RecordLogged(@, cp.p, cp.t)],
                  srv |-> [e.srv EXCEPT !.artifacts = @ \o arts],
                  calls |-> acc.calls \o e.calls \o arts,
                  warnings |-> acc.warnings \o e.warnings])

\* _scan_and_log_checkpoints(checkpoint_callback)
ScanAndLogCheckpoints(l, s, c) ==
    UploadLoop(ScanCheckpoints(c, l._logged_model_time), 1, c,
               [lg |-> l, srv |-> s, calls |-> <<>>, warnings |-> <<>>])

\* (mutant) "or" and "and" of the condition grouped from the left
LogsDuringTraining_LeftGrouped(l, c) ==
    (l._log_model = "all" \/ l._log_model = "True") /\ SaveTopK(c) = 0 - 1

\* the condition of after_save_checkpoint's first branch
LogsDuringTraining(l, c) ==
    l._log_model = "all" \/ (l._log_model = "True" /\ SaveTopK(c) = 0 - 1)

\* after_save_checkpoint(checkpoint_callback): the callback is kept by
\* reference, as Some("cb")
AfterSaveCheckpointResult(l, s, c) ==
    IF LogsDuringTraining(l, c)
    THEN ScanAndLogCheckpoints(l, s, c)
    ELSE IF l._log_model = "True"
    THEN [lg |-> [l EXCEPT !._checkpoint_callback = Some("cb")], srv |-> s,
          calls |-> <<>>, warnings |-> <<>>]
    ELSE [lg |-> l, srv |-> s, calls |-> <<>>, warnings |-> <<>>]

\* the run status finalize reports for its argument
RunStatus(status) ==
    IF status = "success" THEN "FINISHED"
    ELSE IF status = "failed" THEN "FAILED"
    ELSE IF status = "finished" THEN "FINISHED"
    ELSE status

\* finalize past its first test: the deferred checkpoints are uploaded and
\* the run is terminated; get_run returns the run, which is true
TerminateRun(l, s, c, status) ==
    LET r == IF l._checkpoint_callback # None
             THEN ScanAndLogCheckpoints(l, s, c)
             ELSE [lg |-> l, srv |-> s, calls |-> <<>>, warnings |-> <<>>]
        e == Experiment(r.lg, r.srv)
    IN  [lg |-> e.lg,
         srv |-> [e.srv EXCEPT !.run_status =
                     DictSet(@, e.lg._run_id[1], RunStatus(status))],
         calls |-> r.calls \o e.calls
                   \o <<[fn |-> "get_run", run_id |-> e.lg._run_id, arg |-> <<>>],
                        [fn |-> "set_terminated", run_id |-> e.lg._run_id,
                         arg |-> RunStatus(status)]>>,
         warnings |-> r.warnings \o e.warnings]

\* (mutant) finalize without the test of _initialized
FinalizeResult_AlwaysTerminate(l, s, c, status) == TerminateRun(l, s, c, status)

\* finalize(status)
FinalizeResult(l, s, c, status) ==
    IF ~l._initialized
    THEN [lg |-> l, srv |-> s, calls |-> <<>>, warnings |-> <<>>]
    ELSE TerminateRun(l, s, c, status)

(***************************************************************************)
(* log_hyperparams.  A parameter value is [type |-> t, val |-> n]: the     *)
(* integer n ("int"), True or False for 1 or 0 ("bool"), None ("none"), or *)
(* the string of n characters "1234567890123..." ("str").                  *)
(***************************************************************************)
\* the longest parameter value sent
MAX_PARAM_VALUE_LENGTH == 250

\* the most parameters in one log_batch call
PARAMS_PER_BATCH == 100

Min(a, b) == IF a <= b THEN a ELSE b

DigitChar(d) == <<"0", "1", "2", "3", "4", "5", "6", "7", "8", "9">>[d + 1]

\* str(n) of a natural number
RECURSIVE NatToStr(_)
NatToStr(n) == IF n < 10 THEN <<DigitChar(n)>> ELSE NatToStr(n \div 10) \o <<DigitChar(n % 10)>>

\* the string of n characters a "str" value stands for
StringOfLen(n) == [i \in 1..n |-> DigitChar(i % 10)]

\* str(v)
PyStr(v) ==
    IF v.type = "int" THEN (IF v.val < 0 THEN <<"-">> \o NatToStr(0 - v.val) ELSE NatToStr(v.val))
    ELSE IF v.type = "bool" THEN (IF v.val = 1 THEN <<"T", "r", "u", "e">>
                                  ELSE <<"F", "a", "l", "s", "e">>)
    ELSE IF v.type = "none" THEN <<"N", "o", "n", "e">>
    ELSE StringOfLen(v.val)

\* str[:250]
Truncate(str) == SubSeq(str, 1, Min(Len(str), MAX_PARAM_VALUE_LENGTH))

\* params_list
ParamsList(params) ==
    [i \in 1..Len(params) |->
        [key |-> params[i].k, value |-> Truncate(PyStr(params[i].v))]]

\* (mutant) the slice of a chunk ends one parameter early
ParamsSlice_ShortByOne(params_list, idx) ==
    SubSeq(params_list, idx + 1, Min(idx + PARAMS_PER_BATCH - 1, Len(params_list)))

\* params_list[idx : idx + 100], idx counting from 0
ParamsSlice(params_list, idx) ==
    SubSeq(params_list, idx + 1, Min(idx + PARAMS_PER_BATCH, Len(params_list)))

\* The loop of log_hyperparams from idx on; acc holds the logger, the
\* server, the client calls and the warnings so far.
RECURSIVE ParamBatches(_, _, _)
ParamBatches(params_list, idx, acc) ==
    IF idx >= Len(params_list) THEN acc
    ELSE LET e == Experiment(acc.lg, acc.srv)
         IN  ParamBatches(params_list, idx + PARAMS_PER_BATCH,
                 [lg |-> e.lg, srv |-> e.srv,
                  calls |-> acc.calls \o e.calls
                            \o <<[fn |-> "log_batch", run_id |-> e.lg._run_id,
                                  arg |-> ParamsSlice(params_list, idx)]>>,
                  warnings |-> acc.warnings \o e.warnings])

\* log_hyperparams(params), params being the dict after _convert_params
\* and _flatten_dict
LogHyperparamsResult(l, s, params) ==
    ParamBatches(ParamsList(params), 0,
                 [lg |-> l, srv |-> s, calls |-> <<>>, warnings |-> <<>>])

(***************************************************************************)
(* The logger's construction and its save_dir property.                    *)
(***************************************************************************)
\* s.startswith(prefix)
StartsWith(s, prefix) ==
    /\ Len(s) >= Len(prefix)
    /\ SubSeq(s, 1, Len(prefix)) = prefix

\* s.lstrip(chars): the leading characters of s that occur in chars are
\* removed, up to the first character that does not
RECURSIVE LStrip(_, _)
LStrip(s, chars) ==
    IF s # <<>> /\ (\E i \in 1..Len(chars) : chars[i] = s[1])
    THEN LStrip(Tail(s), chars)
    ELSE s

\* the save_dir property: None when the function falls off its end
SaveDir(l) ==
    IF StartsWith(l._tracking_uri, LOCAL_FILE_URI_PREFIX)
    THEN Some(LStrip(l._tracking_uri, LOCAL_FILE_URI_PREFIX))
    ELSE None

\* tracking_uri arguments: not given, empty, a remote server, a local store
TrackingUris ==
    {None, Some(<<>>), Some(<<"h", "t", "t", "p", ":", "/", "/", "h">>),
     Some(<<"f", "i", "l", "e", ":", "/", "d">>),
     Some(<<"f", "i", "l", "e">>)}

\* save_dir arguments
SaveDirs ==
    {Some(<<".", "/", "m", "l", "r", "u", "n", "s">>),
     Some(<<"/", "t", "m", "p">>),
     Some(<<"m", "l", "r", "u", "n", "s">>),
     Some(<<"l", "o", "g", "s">>),
     Some(<<"e", "x", "p">>),
     Some(<<"f", "i", "l", "e", "s">>),
     None}

LogModels == {"False", "True", "all"}

\* no logger has been constructed yet
ConstructInit ==
    /\ lg = NoLogger
    /\ srv \in Servers
    /\ obs = NoObs
    /\ cb = NoCallback
    /\ cfg = <<>> /\ model = <<>> /\ out = NoCall /\ prev = NoCall /\ ncalls = 0

\* MLFlowLogger(tracking_uri=..., save_dir=..., log_model=...), in an
\* environment where mlflow is installed or not
NewLogger ==
    /\ obs.op = "none"
    /\ lg = NoLogger
    /\ \E available \in BOOLEAN, tracking_uri \in TrackingUris,
          save_dir \in SaveDirs, log_model \in LogModels :
          LET a == [DefaultArgs EXCEPT !.tracking_uri = tracking_uri,
                                       !.save_dir = save_dir,
                                       !.log_model = log_model]
              r == MLFlowLoggerInit(available, a)
          IN  /\ cfg' = [available |-> available, args |-> a]
              /\ lg' = r.lg
              /\ obs' = [NoObs EXCEPT !.op = "__init__", !.calls = r.calls,
                                      !.raised = r.raised]
    /\ UNCHANGED <<model, out, prev, ncalls, srv, cb>>

\* a read of logger.save_dir
ReadSaveDir ==
    /\ obs.op = "none"
    /\ lg # NoLogger
    /\ obs' = [NoObs EXCEPT !.op = "save_dir", !.result = SaveDir(lg)]
    /\ UNCHANGED <<netvars, lg, srv, cb>>

ConstructNext == NewLogger \/ ReadSaveDir \/ Observed

SpecConstruct == ConstructInit /\ [][ConstructNext]_vars

(***************************************************************************)
(* A training run: the trainer saves checkpoints through its callback and  *)
(* calls the logger's operations in any order.                             *)
(***************************************************************************)
LifecycleInit ==
    /\ \E log_model \in LogModels, run_id \in {None, Some("r0")} :
          lg = MLFlowLoggerInit(TRUE, [DefaultArgs EXCEPT !.log_model = log_model,
                                                          !.run_id = run_id]).lg
    /\ srv \in Servers
    /\ obs = NoObs
    /\ cb \in Callbacks
    /\ cfg = <<>> /\ model = <<>> /\ out = NoCall /\ prev = NoCall /\ ncalls = 0

\* the trainer's callback saves a checkpoint
SaveCheckpoint ==
    /\ obs.op = "none"
    /\ cb.nsaves < MaxSaves
    /\ \E p \in CheckpointPaths, score \in Scores : cb' = CallbackAfterSave(cb, p, score)
    /\ UNCHANGED <<netvars, lg, srv, obs>>

\* after_save_checkpoint(checkpoint_callback) with the trainer's callback
AfterSaveCheckpoint ==
    /\ obs.op = "none"
    /\ LET r == AfterSaveCheckpointResult(lg, srv, cb)
       IN  /\ lg' = r.lg
           /\ srv' = r.srv
           /\ obs' = [NoObs EXCEPT !.op = "after_save_checkpoint", !.calls = r.calls,
                                   !.warnings = r.warnings]
    /\ UNCHANGED <<netvars, cb>>

\* finalize(status)
Finalize ==
    /\ obs.op = "none"
    /\ \E status \in {"success", "failed"} :
          LET r == FinalizeResult(lg, srv, cb, status)
          IN  /\ lg' = r.lg
              /\ srv' = r.srv
              /\ obs' = [NoObs EXCEPT !.op = "finalize", !.status = status,
                                      !.calls = r.calls, !.warnings = r.warnings]
    /\ UNCHANGED <<netvars, cb>>

\* log_hyperparams(params)
LogHyperparamsCall(params) ==
    LET r == LogHyperparamsResult(lg, srv, params)
    IN  /\ lg' = r.lg
        /\ srv' = r.srv
        /\ obs' = [NoObs EXCEPT !.op = "log_hyperparams", !.params = params,
                                !.calls = r.calls, !.warnings = r.warnings]

\* the hyperparameters of the run: none, or a learning-rate index and a name
FewParams ==
    {<<>>,
     <<[k |-> <<"l", "r">>, v |-> [type |-> "int", val |-> 3]],
       [k |-> <<"n">>, v |-> [type |-> "str", val |-> 4]]>>}

LogFewHyperparams ==
    /\ obs.op = "none"
    /\ \E params \in FewParams : LogHyperparamsCall(params)
    /\ UNCHANGED <<netvars, cb>>

\* log_metrics({"a": 1.0}) at time 1000
LogOneMetric ==
    /\ obs.op = "none"
    /\ LogMetricsCall(<<[k |-> <<"a">>, v |-> [type |-> "float", val |-> 1]]>>, None, 1000)
    /\ UNCHANGED <<netvars, cb>>

LifecycleNext ==
    \/ AccessExperiment
    \/ LogOneMetric
    \/ LogFewHyperparams
    \/ SaveCheckpoint
    \/ AfterSaveCheckpoint
    \/ Finalize
    \/ Observed

SpecLifecycle == LifecycleInit /\ [][LifecycleNext]_vars

(***************************************************************************)
(* log_hyperparams on dicts of up to a little over two hundred parameters. *)
(***************************************************************************)
ParamCounts == {0, 1, 99, 100, 101, 200, 201}

\* the value of parameter i: in scheme 1 the integer i - 2; in scheme 2 a
\* string of 248 to 251 characters; in scheme 3 None, a bool, a string of
\* 300 characters or an integer in turn
ParamValue(scheme, i) ==
    IF scheme = 1 THEN [type |-> "int", val |-> i - 2]
    ELSE IF scheme = 2 THEN [type |-> "str", val |-> 248 + (i % 4)]
    ELSE IF i % 4 = 0 THEN [type |-> "none", val |-> 0]
    ELSE IF i % 4 = 1 THEN [type |-> "bool", val |-> (i \div 4) % 2]
    ELSE IF i % 4 = 2 THEN [type |-> "str", val |-> 300]
    ELSE [type |-> "int", val |-> 1000 * i]

ManyParams ==
    {[i \in 1..n |-> [k |-> <<"p">> \o NatToStr(i), v |-> ParamValue(scheme, i)]] :
        n \in ParamCounts, scheme \in 1..3}

ParamsInit ==
    /\ \E run_id \in {None, Some("r0")} :
          lg = MLFlowLoggerInit(TRUE, [DefaultArgs EXCEPT !.run_id = run_id]).lg
    /\ srv \in Servers
    /\ obs = NoObs
    /\ cb = NoCallback
    /\ cfg = <<>> /\ model = <<>> /\ out = NoCall /\ prev = NoCall /\ ncalls = 0

LogManyHyperparams ==
    /\ obs.op = "none"
    /\ \E params \in ManyParams : LogHyperparamsCall(params)
    /\ UNCHANGED <<netvars, cb>>

ParamsNext == AccessExperiment \/ LogManyHyperparams \/ Observed

SpecParams == ParamsInit /\ [][ParamsNext]_vars

(***************************************************************************)
(* Properties of the networks.                                             *)
(***************************************************************************)
Called == out.status # "none"

\* the encoder's pyramids for the two times of the latest batch
T0 == Encoder(model.encoder, TimeSlice(out.x, 0))
T1 == Encoder(model.encoder, TimeSlice(out.x, 1))

SameShapes(p, q) ==
    /\ Len(p) = Len(q)
    /\ \A i \in 1..Len(p) :
          /\ p[i].b = q[i].b /\ p[i].h = q[i].h /\ p[i].w = q[i].w
          /\ Len(p[i].ch) = Len(q[i].ch)

\* C1: after FCSiamConc.forward on a batch whose two pyramids have the same
\* length L and the same shapes, the pyramid handed to the decoder has L
\* levels and every level i >= 1 is T1's level i followed, on the channel
\* axis, by T0's level i.
C1_ConcLevels ==
    (Called /\ model.variant = "conc" /\ SameShapes(T0, T1)) =>
        /\ Len(out.decoder_args) = Len(T1)
        /\ \A i \in 2..Len(T1) :
              out.decoder_args[i] =
                  [b |-> T1[i].b, h |-> T1[i].h, w |-> T1[i].w,
                   ch |-> T1[i].ch \o T0[i].ch]

C1_Witness ==
    /\ Called /\ model.variant = "conc" /\ SameShapes(T0, T1)
    /\ Len(T1) = 3
    /\ \A i \in 2..3 : T1[i].ch \o T0[i].ch # T0[i].ch \o T1[i].ch

\* C2: after FCSiamDiff.forward on a batch whose two pyramids have the same
\* length and shapes, every level i >= 1 handed to the decoder is T1's level
\* i minus T0's level i, element by element, with the channel count of
\* either input.
C2_DiffLevels ==
    (Called /\ model.variant = "diff" /\ SameShapes(T0, T1)) =>
        /\ Len(out.decoder_args) = Len(T1)
        /\ \A i \in 2..Len(T1) :
              /\ Len(out.decoder_args[i].ch) = Len(T1[i].ch)
              /\ Len(out.decoder_args[i].ch) = Len(T0[i].ch)
              /\ out.decoder_args[i].b = T1[i].b
              /\ out.decoder_args[i].h = T1[i].h
              /\ out.decoder_args[i].w = T1[i].w
              /\ \A k \in 1..Len(T1[i].ch) :
                    out.decoder_args[i].ch[k] = T1[i].ch[k] - T0[i].ch[k]

C2_Witness ==
    /\ Called /\ model.variant = "diff" /\ SameShapes(T0, T1)
    /\ Len(T1) = 3
    /\ \E k \in 1..Len(T1[2].ch) : out.decoder_args[2].ch[k] < 0
    /\ \E k \in 1..Len(T1[3].ch) : out.decoder_args[3].ch[k] > 0

\* C3: in both variants level 0 of the pyramid handed to the decoder is
\* T1's level 0 as the encoder gave it, whatever T0's level 0 is, and the
\* pyramid has as many levels as the encoder's output.
C3_Level0PassThrough ==
    Called =>
        /\ Len(out.decoder_args) = Len(out.features1)
        /\ Len(out.decoder_args) = model.encoder.depth + 1
        /\ out.decoder_args[1] = T1[1]
        /\ out.decoder_args[1] = out.features2[1]

C3_Witness ==
    /\ Called
    /\ T0[1].ch # T1[1].ch
    /\ out.decoder_args[1] = T1[1]
    /\ ncalls > 1 /\ prev.x = SwapTimes(out.x)
    /\ prev.decoder_args[1] # out.decoder_args[1]

\* C4: the channel counts FCSiamConc.__init__ configures the decoder with
\* are out_channels[0] at level 0 and twice out_channels[i] at every level
\* i >= 1, and they are the channel counts of the pyramid forward hands to
\* the decoder: level 0 unchanged, level i >= 1 the sum of both inputs'.
C4_DecoderChannelsMatch ==
    model.variant = "conc" =>
        /\ Len(model.decoder_in) = Len(cfg.out_channels)
        /\ model.decoder_in[1] = cfg.out_channels[1]
        /\ \A i \in 2..Len(cfg.out_channels) :
              model.decoder_in[i] = cfg.out_channels[i] + cfg.out_channels[i]
        /\ Called =>
              /\ Len(out.decoder_args) = Len(model.decoder_in)
              /\ Len(out.decoder_args[1].ch) = Len(T1[1].ch)
              /\ \A i \in 1..Len(out.decoder_args) :
                    Len(out.decoder_args[i].ch) = model.decoder_in[i]
              /\ \A i \in 2..Len(out.decoder_args) :
                    Len(out.decoder_args[i].ch) = Len(T1[i].ch) + Len(T0[i].ch)

C4_Witness ==
    /\ model.variant = "conc" /\ Called
    /\ cfg.out_channels[1] = 2
    /\ Len(out.decoder_args[1].ch) = 2
    /\ Len(out.decoder_args[2].ch) = 2

\* C5: when FCSiamDiff.forward is called on a batch and then on the same
\* batch with T0 and T1 exchanged, every level i >= 1 of the second fused
\* pyramid is the negation of that level of the first.
C5_DiffAntiSymmetric ==
    (/\ model.variant = "diff" /\ Called /\ prev.status # "none"
     /\ out.x = SwapTimes(prev.x)) =>
        /\ Len(out.decoder_args) = Len(prev.decoder_args)
        /\ \A i \in 2..Len(out.decoder_args) :
              /\ out.decoder_args[i].b = prev.decoder_args[i].b
              /\ out.decoder_args[i].h = prev.decoder_args[i].h
              /\ out.decoder_args[i].w = prev.decoder_args[i].w
              /\ Len(out.decoder_args[i].ch) = Len(prev.decoder_args[i].ch)
              /\ \A k \in 1..Len(out.decoder_args[i].ch) :
                    out.decoder_args[i].ch[k] = 0 - prev.decoder_args[i].ch[k]

C5_Witness ==
    /\ model.variant = "diff" /\ Called /\ prev.status # "none"
    /\ out.x = SwapTimes(prev.x)
    /\ Len(out.decoder_args) = 3
    /\ \A i \in 2..3 : \E k \in 1..Len(out.decoder_args[i].ch) :
          out.decoder_args[i].ch[k] # 0

\* the pyramids differ in their number of levels, or in the batch or
\* spatial size of some level
Mismatched(p, q) ==
    \/ Len(p) # Len(q)
    \/ \E i \in 1..Len(p) :
          i <= Len(q) /\ (p[i].b # q[i].b \/ p[i].h # q[i].h \/ p[i].w # q[i].w)

ValidBatch(x) ==
    /\ x.h % Pow2(cfg.encoder_depth) = 0
    /\ x.w % Pow2(cfg.encoder_depth) = 0

\* C7: on a batch of shape (B, 2, C, H, W) whose H and W the encoder can
\* halve at every level, forward of either variant returns a mask of shape
\* (B, classes, H, W).
C7_MaskShape ==
    (Called /\ ValidBatch(out.x)) =>
        /\ out.status = "ok"
        /\ out.masks.shape = <<out.x.b, cfg.classes, out.x.h, out.x.w>>

C7_Witness ==
    /\ Called /\ ValidBatch(out.x) /\ out.status = "ok"
    /\ cfg.encoder_depth = 2 /\ cfg.classes = 2
    /\ out.x.b = 2 /\ out.x.h # out.x.w
    /\ out.masks.shape = <<2, 2, 4, 8>>

LoggedMetrics == obs.op = "log_metrics"

\* the log_batch calls of the latest operation, and the metrics of the last
BatchCalls == SelectSeq(obs.calls, LAMBDA c : c.fn = "log_batch")
Batch == obs.calls[Len(obs.calls)].arg

\* the characters a metric name may hold: [a-zA-Z0-9_/. -]
AllowedInName ==
    {"a", "b", "c", "d", "e", "f", "g", "h", "i", "j", "k", "l", "m", "n", "o",
     "p", "q", "r", "s", "t", "u", "v", "w", "x", "y", "z",
     "A", "B", "C", "D", "E", "F", "G", "H", "I", "J", "K", "L", "M", "N", "O",
     "P", "Q", "R", "S", "T", "U", "V", "W", "X", "Y", "Z",
     "0", "1", "2", "3", "4", "5", "6", "7", "8", "9",
     "_", "/", ".", " ", "-"}

\* name with every character outside the class removed
Sanitised(name) == SelectSeq(name, LAMBDA c : c \in AllowedInName)

\* a warning that name was replaced by its sanitised form was emitted
RenameWarned(name) ==
    \E i \in 1..Len(obs.warnings) :
        /\ obs.warnings[i].kind = "rename"
        /\ obs.warnings[i].k = name
        /\ obs.warnings[i].to = Sanitised(name)

\* metric number i of the call was transmitted under key, with its value
Transmitted(i, key) ==
    \E j \in 1..Len(Batch) : Batch[j].key = key /\ Batch[j].value = obs.metrics[i].v

NameLossValStep == <<"l", "o", "s", "s", "/", "v", "a", "l", " ", "s", "t", "e", "p", "-", "1">>
NameLossAtVal == <<"l", "o", "s", "s", "@", "v", "a", "l", "#", "1">>
NameLossVal1 == <<"l", "o", "s", "s", "v", "a", "l", "1">>

\* C9 as stated: log_metrics transmits every metric of the call under its
\* name with the characters outside [a-zA-Z0-9_/. -] removed, with its
\* value, and warns of the renaming exactly when the name changed.
C9_EveryNameSanitised ==
    LoggedMetrics =>
        \A i \in 1..Len(obs.metrics) :
            /\ Transmitted(i, Sanitised(obs.metrics[i].k))
            /\ RenameWarned(obs.metrics[i].k)
                   <=> Sanitised(obs.metrics[i].k) # obs.metrics[i].k

\* the name log_metrics works on: the key, after the logger's prefix and
\* "-" when the prefix is not empty
PrefixedName(k) == IF lg._prefix = <<>> THEN k ELSE lg._prefix \o <<"-">> \o k

NotStr(i) == obs.metrics[i].v.type # "str"

\* the metrics of the call whose value is no string, in the call's order
NonStrIndexes == SelectSeq([i \in 1..Len(obs.metrics) |-> i], NotStr)

\* C9 (amended): for every metric whose value is not a string, log_metrics
\* takes the name (the key, behind the logger's prefix and "-" when there is
\* a prefix), removes each character outside [a-zA-Z0-9_/. -], warns of the
\* renaming exactly when that changed the name, and transmits the metric
\* under the sanitised name with its value; with no prefix "loss/val step-1"
\* goes out unchanged and unwarned and "loss@val#1" goes out as "lossval1".
C9_NonStrNameSanitised ==
    LoggedMetrics =>
        /\ Len(Batch) = Len(NonStrIndexes)
        /\ \A j \in 1..Len(NonStrIndexes) :
              LET i == NonStrIndexes[j]
                  name == PrefixedName(obs.metrics[i].k)
              IN  /\ Batch[j].key = Sanitised(name)
                  /\ Batch[j].value = obs.metrics[i].v
                  /\ RenameWarned(name) <=> Sanitised(name) # name
                  /\ (lg._prefix = <<>> /\ name = NameLossValStep) =>
                        (Batch[j].key = NameLossValStep /\ ~RenameWarned(name))
                  /\ (lg._prefix = <<>> /\ name = NameLossAtVal) =>
                        (Batch[j].key = NameLossVal1 /\ RenameWarned(name))
        /\ \A w \in 1..Len(obs.warnings) :
              obs.warnings[w].kind = "rename" =>
                  \E i \in 1..Len(obs.metrics) :
                      /\ NotStr(i)
                      /\ obs.warnings[w].k = PrefixedName(obs.metrics[i].k)
                      /\ obs.warnings[w].to # obs.warnings[w].k

C9_Witness ==
    /\ LoggedMetrics /\ lg._prefix = <<>>
    /\ Len(obs.metrics) = 2 /\ NotStr(1) /\ NotStr(2)
    /\ obs.metrics[1].k = NameLossAtVal /\ obs.metrics[2].k = NameLossValStep
    /\ Len(Batch) = 2
    /\ Batch[1].key = NameLossVal1 /\ Batch[2].key = NameLossValStep
    /\ RenameWarned(NameLossAtVal) /\ ~RenameWarned(NameLossValStep)

\* the call's metrics without the items whose value is a string
WithoutStr == [j \in 1..Len(NonStrIndexes) |-> obs.metrics[NonStrIndexes[j]]]

\* C10: log_metrics makes one log_batch call; no metric in it has a string
\* value; and its metrics are, in keys, values, steps, timestamps and order,
\* those the call would send had the string-valued items not been given.
C10_StrDroppedOthersKept ==
    LoggedMetrics =>
        /\ Len(BatchCalls) = 1
        /\ obs.calls[Len(obs.calls)].fn = "log_batch"
        /\ \A j \in 1..Len(Batch) : Batch[j].value.type # "str"
        /\ Len(Batch) = Len(WithoutStr)
        /\ Batch = BuildMetrics(lg, WithoutStr, obs.step, obs.timestamp_ms).metrics_list
        /\ \A j \in 1..Len(Batch) :
              /\ Batch[j].value = WithoutStr[j].v
              /\ Batch[j].step = (IF obs.step = None THEN 0 ELSE obs.step[1])

C10_Witness ==
    /\ LoggedMetrics
    /\ Len(obs.metrics) = 2
    /\ ~NotStr(1) /\ NotStr(2)
    /\ obs.step = Some(5)
    /\ Len(Batch) = 1
    /\ Batch[1].value = obs.metrics[2].v /\ Batch[1].step = 5

\* a warning that the metric named name was discarded was emitted
DiscardWarned(name) ==
    \E w \in 1..Len(obs.warnings) :
        obs.warnings[w].kind = "discard" /\ obs.warnings[w].k = name

\* C11: log_metrics returns without an exception, and every metric of the
\* call whose value is not a number (a string, None, a list, a dict) is
\* discarded with a warning and is not in the batch handed to the client.
C11_NonNumericDiscarded ==
    LoggedMetrics =>
        /\ obs.raised = None
        /\ \A i \in 1..Len(obs.metrics) :
              obs.metrics[i].v.type # "float" =>
                  /\ DiscardWarned(PrefixedName(obs.metrics[i].k))
                  /\ \A j \in 1..Len(Batch) : Batch[j].value # obs.metrics[i].v

\* the dict d holds key, with the value value, once
HasTag(d, key, value) ==
    /\ \E i \in 1..Len(d) : d[i].k = key /\ d[i].v = value
    /\ \A i \in 1..Len(d) : \A j \in 1..Len(d) : (d[i].k = key /\ d[j].k = key) => i = j

HasKey(d, key) == \E i \in 1..Len(d) : d[i].k = key

\* the user's tags before the step, None counting as no tags
UserTags == IF lg.tags = None THEN <<>> ELSE lg.tags[1]

\* C16: every create_run call is sent tags such that, when the logger has a
\* run_name, the tag mlflow.runName is run_name (whatever the user's tags
\* gave for it) and every other tag of the user is there with its value;
\* and, when run_name is None, every tag of the user is there with its
\* value and mlflow.runName is there only if the user gave it.
C16_RunNameTag ==
    [][\A c \in 1..Len(obs'.calls) :
          obs'.calls[c].fn = "create_run" =>
              LET sent == obs'.calls[c].arg
              IN  IF lg._run_name # None
                  THEN /\ HasTag(sent, "mlflow.runName", lg._run_name[1])
                       /\ \A j \in 1..Len(UserTags) :
                             UserTags[j].k # "mlflow.runName" =>
                                 HasTag(sent, UserTags[j].k, UserTags[j].v)
                  ELSE /\ \A j \in 1..Len(UserTags) :
                             HasTag(sent, UserTags[j].k, UserTags[j].v)
                       /\ HasKey(sent, "mlflow.runName")
                             <=> HasKey(UserTags, "mlflow.runName")]_vars

C16_Witness ==
    /\ \E c \in 1..Len(obs.calls) :
          /\ obs.calls[c].fn = "create_run"
          /\ HasTag(obs.calls[c].arg, "mlflow.runName", <<"n">>)
          /\ HasTag(obs.calls[c].arg, "owner", <<"m">>)
    /\ \E w \in 1..Len(obs.warnings) : obs.warnings[w].kind = "run_name_override"
    /\ lg._run_name = Some(<<"n">>)

(***************************************************************************)
(* Properties of the logger's construction.                                *)
(***************************************************************************)
\* the constructor was given no tracking_uri, or an empty one
NoTrackingUri == cfg.args.tracking_uri = None \/ cfg.args.tracking_uri[1] = <<>>

\* C15: when the constructor was given no tracking_uri and the string d as
\* save_dir, the tracking URI is "file:" followed by d and the save_dir
\* property returns d; when the tracking URI does not start with "file:"
\* the property returns None.
C15_SaveDirRoundTrip ==
    obs.op = "save_dir" =>
        /\ (NoTrackingUri /\ cfg.args.save_dir # None) =>
              /\ lg._tracking_uri = <<"f", "i", "l", "e", ":">> \o cfg.args.save_dir[1]
              /\ obs.result = cfg.args.save_dir
        /\ (Len(lg._tracking_uri) < 5
             \/ SubSeq(lg._tracking_uri, 1, 5) # <<"f", "i", "l", "e", ":">>) =>
              obs.result = None

\* C17: when mlflow is not installed the constructor raises
\* ModuleNotFoundError, has set no attribute of the logger and has created
\* no MlflowClient; a logger exists only where mlflow is installed.
C17_MissingMlflowFatal ==
    /\ (obs.op = "__init__" /\ ~cfg.available) =>
          /\ obs.raised = Some("ModuleNotFoundError")
          /\ lg = NoLogger
          /\ \A i \in 1..Len(obs.calls) : obs.calls[i].fn # "MlflowClient"
    /\ (obs.op = "__init__" /\ cfg.available) =>
          /\ obs.raised = None
          /\ lg # NoLogger
    /\ lg # NoLogger => cfg.available
    /\ obs.op = "save_dir" => lg # NoLogger

C17_Witness ==
    /\ obs.op = "__init__" /\ ~cfg.available
    /\ obs.raised = Some("ModuleNotFoundError")
    /\ cfg.args.log_model = "all" /\ cfg.args.tracking_uri # None
    /\ lg = NoLogger

(***************************************************************************)
(* Properties of the checkpoint uploads.                                   *)
(***************************************************************************)
\* the log_artifact calls of the latest operation
Artifacts == SelectSeq(obs.calls, LAMBDA call : call.fn = "log_artifact")

IsCheckpointUpload(call) == call.fn = "log_artifact" /\ call.arg.checkpoint # None
IsAliasesUpload(call) == call.fn = "log_artifact" /\ call.arg.aliases # None

\* the checkpoint uploads and the alias lists written by the latest operation
CheckpointUploads == SelectSeq(obs.calls, IsCheckpointUpload)
AliasUploads == SelectSeq(obs.calls, IsAliasesUpload)

\* C12: the latest operation wrote one alias list per checkpoint it
\* uploaded; the list is ["latest", "best"] when the checkpoint's path is the
\* callback's best_model_path and ["latest"] otherwise, so at most one of
\* the lists of a scan holds "best".
C12_AliasLists ==
    /\ Len(AliasUploads) = Len(CheckpointUploads)
    /\ \A i \in 1..Len(CheckpointUploads) :
          LET path == CheckpointUploads[i].arg.checkpoint[1].p
              aliases == AliasUploads[i].arg.aliases[1]
          IN  /\ aliases[1] = "latest"
              /\ path = cb.best_model_path => aliases = <<"latest", "best">>
              /\ path # cb.best_model_path => aliases = <<"latest">>
    /\ \A i \in 1..Len(AliasUploads) : \A j \in 1..Len(AliasUploads) :
          (/\ Len(AliasUploads[i].arg.aliases[1]) = 2
           /\ Len(AliasUploads[j].arg.aliases[1]) = 2) => i = j

C12_Witness ==
    /\ Len(CheckpointUploads) = 2
    /\ CheckpointUploads[1].arg.checkpoint[1].p = cb.best_model_path
    /\ AliasUploads[1].arg.aliases[1] = <<"latest", "best">>
    /\ AliasUploads[2].arg.aliases[1] = <<"latest">>

\* the paths the callback tracks (last, best, best k) that are files and
\* were not logged at the time they now have
Pending(c, logged) ==
    {q \in {c.last_model_path, c.best_model_path}
            \cup {c.best_k_models[i].k : i \in 1..Len(c.best_k_models)} :
        /\ HasKey(c.files, q)
        /\ ~HasTag(logged, q, DictGet(c.files, q))}

\* the paths of the checkpoints the operation of the step uploads
UploadedPaths(calls) ==
    {calls[i].arg.checkpoint[1].p :
        i \in {j \in 1..Len(calls) : IsCheckpointUpload(calls[j])}}

\* save_top_k of the trainer's callback
TopK == DictGet(cb.attrs, "save_top_k").val

\* C13: with log_model "all", or True and save_top_k = -1, an
\* after_save_checkpoint call uploads every checkpoint not yet logged and
\* leaves none to log; with log_model True and save_top_k # -1 an
\* after_save_checkpoint call uploads nothing and only finalize adds to the
\* uploaded artifacts; with log_model False no artifact is ever uploaded.
C13_LogModelPolicy ==
    [][/\ (/\ obs'.op = "after_save_checkpoint"
           /\ (lg._log_model = "all" \/ (lg._log_model = "True" /\ TopK = 0 - 1))) =>
              /\ UploadedPaths(obs'.calls) = Pending(cb, lg._logged_model_time)
              /\ Pending(cb', lg'._logged_model_time) = {}
       /\ (lg._log_model = "True" /\ TopK # 0 - 1) =>
              /\ obs'.op = "after_save_checkpoint" =>
                    (UploadedPaths(obs'.calls) = {} /\ srv'.artifacts = srv.artifacts)
              /\ srv'.artifacts # srv.artifacts => obs'.op = "finalize"
       /\ lg._log_model = "False" =>
              (srv.artifacts = <<>> /\ srv'.artifacts = <<>>
               /\ UploadedPaths(obs'.calls) = {})]_vars

C13_Witness ==
    /\ lg._log_model = "True" /\ TopK = 2
    /\ obs.op = "finalize"
    /\ UploadedPaths(obs.calls) = {PathA, PathB}
    /\ Len(srv.artifacts) = 6

\* the artifact path the checkpoint at path is to go under:
\* model/checkpoints/ and the file name without its extension
ExpectedArtifactPath(path) ==
    <<"m", "o", "d", "e", "l", "/", "c", "h", "e", "c", "k", "p", "o", "i", "n", "t", "s", "/">>
    \o (IF path = <<"d", "/", "a", "=", "1", ".", "c", "k">> THEN <<"a", "=", "1">>
        ELSE IF path = <<"d", "/", "b", ".", "1", ".", "c", "k">> THEN <<"b", ".", "1">>
        ELSE <<"l", "a", "s", "t">>)

\* the file name of the checkpoint at path
ExpectedFileName(path) ==
    IF path = <<"d", "/", "a", "=", "1", ".", "c", "k">> THEN <<"a", "=", "1", ".", "c", "k">>
    ELSE IF path = <<"d", "/", "b", ".", "1", ".", "c", "k">> THEN <<"b", ".", "1", ".", "c", "k">>
    ELSE <<"l", "a", "s", "t">>

PolicyNames ==
    {"monitor", "mode", "save_last", "save_top_k", "save_weights_only",
     "_every_n_train_steps", "_every_n_val_epochs"}

\* the score the callback holds for the checkpoint at path
TrackedScore(path) ==
    IF HasKey(cb.best_k_models, path) THEN DictGet(cb.best_k_models, path)
    ELSE IF path = cb.best_model_path THEN cb.best_model_score
    ELSE cb.current_score

\* C14: an operation that uploads anything uploads, for each checkpoint the
\* scan returned and in the scan's order, three artifacts under
\* model/checkpoints/<file name without extension>: the checkpoint file,
\* then metadata.yaml holding the score as a number, the file name and those
\* of the seven policy attributes that the callback has, then aliases.txt.
C14_UploadOrder ==
    [][LET arts == SelectSeq(obs'.calls, LAMBDA call : call.fn = "log_artifact")
           scan == ScanCheckpoints(cb, lg._logged_model_time)
       IN  arts # <<>> =>
             /\ Len(arts) = 3 * Len(scan)
             /\ \A g \in 1..Len(scan) :
                   LET file == arts[3 * g - 2].arg
                       meta == arts[3 * g - 1].arg
                       alias == arts[3 * g].arg
                       path == scan[g].p
                   IN  /\ file.checkpoint = Some([p |-> path, t |-> DictGet(cb.files, path)])
                       /\ file.file = ExpectedFileName(path)
                       /\ file.artifact_path = ExpectedArtifactPath(path)
                       /\ meta.file = <<"m", "e", "t", "a", "d", "a", "t", "a", ".", "y", "a", "m", "l">>
                       /\ meta.artifact_path = ExpectedArtifactPath(path)
                       /\ meta.metadata # None
                       /\ meta.metadata[1].original_filename = ExpectedFileName(path)
                       /\ meta.metadata[1].score.type = "float"
                       /\ meta.metadata[1].score.val = TrackedScore(path).val
                       /\ \A k \in PolicyNames :
                             IF HasKey(cb.attrs, k)
                             THEN HasTag(meta.metadata[1].Checkpoint, k, DictGet(cb.attrs, k))
                             ELSE ~HasKey(meta.metadata[1].Checkpoint, k)
                       /\ \A i \in 1..Len(meta.metadata[1].Checkpoint) :
                             meta.metadata[1].Checkpoint[i].k \in PolicyNames
                       /\ alias.file = <<"a", "l", "i", "a", "s", "e", "s", ".", "t", "x", "t">>
                       /\ alias.artifact_path = ExpectedArtifactPath(path)
                       /\ alias.aliases # None]_vars

C14_Witness ==
    /\ Len(Artifacts) = 6
    /\ Artifacts[1].arg.checkpoint # None
    /\ Artifacts[1].arg.checkpoint[1].p = <<"d", "/", "b", ".", "1", ".", "c", "k">>
    /\ Artifacts[2].arg.metadata # None
    /\ HasKey(Artifacts[2].arg.metadata[1].Checkpoint, "_every_n_val_epochs")
    /\ Artifacts[3].arg.aliases # None
    /\ Artifacts[4].arg.checkpoint # None
    /\ Artifacts[4].arg.checkpoint[1].p = <<"d", "/", "l", "a", "s", "t">>
    /\ Artifacts[6].arg.artifact_path = ExpectedArtifactPath(<<"d", "/", "l", "a", "s", "t">>)

\* the checkpoint uploads the server has received, as (path, save time)
ServerCheckpoints ==
    SelectSeq(srv.artifacts, IsCheckpointUpload)

\* C18: whatever operations were called, the server was asked at most once
\* to create the experiment and at most once to create a run, and a step
\* never changes a _run_id or an _experiment_id that is set.
C18_LazyInitOnce ==
    /\ [](srv.n_create_experiment <= 1 /\ srv.n_create_run <= 1)
    /\ [][/\ lg._run_id # <<>> => lg'._run_id = lg._run_id
          /\ lg._experiment_id # <<>> => lg'._experiment_id = lg._experiment_id
          /\ Len(SelectSeq(obs'.calls, LAMBDA call : call.fn = "create_run")) <= 1
          /\ lg._initialized =>
                \A i \in 1..Len(obs'.calls) :
                    obs'.calls[i].fn \notin {"create_run", "create_experiment"}]_vars

C18_Witness ==
    /\ srv.n_create_experiment = 1 /\ srv.n_create_run = 1
    /\ lg._initialized /\ lg._run_id = <<"r1">> /\ lg._experiment_id = <<"e1">>
    /\ obs.op = "finalize"
    /\ Len(ServerCheckpoints) = 2
    /\ \A i \in 1..Len(obs.calls) : obs.calls[i].fn # "create_run"

\* an operation that scans the callback's checkpoints is being observed
\* after the step
ScansInStep ==
    \/ /\ obs'.op = "after_save_checkpoint"
       /\ (lg._log_model = "all" \/ (lg._log_model = "True" /\ TopK = 0 - 1))
    \/ /\ obs'.op = "finalize"
       /\ lg._initialized
       /\ lg._checkpoint_callback # <<>>

\* C19: the server never receives the same checkpoint (path and save time)
\* twice; an operation that uploads checkpoint p saved at t leaves
\* _logged_model_time[p] = t; an operation uploads nothing for a path logged
\* at the time the file still has; and an operation that scans uploads again
\* a tracked path whose file is newer than the time logged for it.
C19_UploadOncePerSave ==
    /\ [](/\ \A i \in 1..Len(ServerCheckpoints) : \A j \in 1..Len(ServerCheckpoints) :
                ServerCheckpoints[i].arg.checkpoint = ServerCheckpoints[j].arg.checkpoint
                    => i = j
          /\ \A i \in 1..Len(CheckpointUploads) :
                HasTag(lg._logged_model_time,
                       CheckpointUploads[i].arg.checkpoint[1].p,
                       CheckpointUploads[i].arg.checkpoint[1].t))
    /\ [][\A q \in {PathA, PathB, PathLast} :
             HasKey(lg._logged_model_time, q) =>
                 /\ (HasKey(cb.files, q)
                     /\ DictGet(cb.files, q) = DictGet(lg._logged_model_time, q)) =>
                        q \notin UploadedPaths(obs'.calls)
                 /\ (/\ ScansInStep
                     /\ q \in {cb.last_model_path, cb.best_model_path}
                              \cup {cb.best_k_models[i].k : i \in 1..Len(cb.best_k_models)}
                     /\ HasKey(cb.files, q)
                     /\ DictGet(cb.files, q) > DictGet(lg._logged_model_time, q)) =>
                        \E i \in 1..Len(obs'.calls) :
                            /\ IsCheckpointUpload(obs'.calls[i])
                            /\ obs'.calls[i].arg.checkpoint
                                   = Some([p |-> q, t |-> DictGet(cb.files, q)])]_vars

C19_Witness ==
    /\ Len(ServerCheckpoints) = 2
    /\ ServerCheckpoints[1].arg.checkpoint[1].p = ServerCheckpoints[2].arg.checkpoint[1].p
    /\ ServerCheckpoints[1].arg.checkpoint[1].t < ServerCheckpoints[2].arg.checkpoint[1].t
    /\ HasTag(lg._logged_model_time, ServerCheckpoints[2].arg.checkpoint[1].p,
              ServerCheckpoints[2].arg.checkpoint[1].t)
    /\ obs.op = "after_save_checkpoint" /\ Artifacts = <<>>

(***************************************************************************)
(* Properties of log_hyperparams.                                          *)
(***************************************************************************)
LoggedHyperparams == obs.op = "log_hyperparams"

\* the log_batch calls of the latest operation and their positions
ParamBatchCalls == SelectSeq(obs.calls, LAMBDA call : call.fn = "log_batch")

\* the parameters of the calls, one call after the other
RECURSIVE Concatenated(_)
Concatenated(batches) ==
    IF batches = <<>> THEN <<>> ELSE batches[1].arg \o Concatenated(Tail(batches))

\* C20: log_hyperparams on n parameters makes ceil(n / 100) log_batch calls,
\* one after the other and for the same run, each of 1 to 100 parameters;
\* together they hold the n parameters once each, in the dict's order, under
\* their keys, each value being the first 250 characters of str(value).
C20_ParamBatches ==
    LoggedHyperparams =>
        LET n == Len(obs.params)
            sent == Concatenated(ParamBatchCalls)
        IN  /\ Len(ParamBatchCalls) = (n + 99) \div 100
            /\ n = 0 => obs.calls = <<>>
            /\ \A b \in 1..Len(ParamBatchCalls) :
                  /\ Len(ParamBatchCalls[b].arg) >= 1
                  /\ Len(ParamBatchCalls[b].arg) <= 100
                  /\ ParamBatchCalls[b].run_id = lg._run_id
                  /\ lg._run_id # <<>>
            /\ \A i \in 1..Len(obs.calls) : \A j \in 1..Len(obs.calls) :
                  (i < j /\ obs.calls[i].fn = "log_batch") => obs.calls[j].fn = "log_batch"
            /\ Len(sent) = n
            /\ \A i \in 1..n :
                  LET whole == PyStr(obs.params[i].v)
                  IN  /\ sent[i].key = obs.params[i].k
                      /\ Len(sent[i].value) <= 250
                      /\ Len(sent[i].value) = (IF Len(whole) > 250 THEN 250 ELSE Len(whole))
                      /\ \A c \in 1..Len(sent[i].value) : sent[i].value[c] = whole[c]

C20_Witness ==
    /\ LoggedHyperparams
    /\ Len(obs.params) = 201
    /\ Len(ParamBatchCalls) = 3
    /\ Len(ParamBatchCalls[1].arg) = 100
    /\ Len(ParamBatchCalls[2].arg) = 100
    /\ Len(ParamBatchCalls[3].arg) = 1
    /\ obs.params[3].v = [type |-> "str", val |-> 251]
    /\ Len(ParamBatchCalls[1].arg[3].value) = 250
    /\ obs.params[2].v = [type |-> "str", val |-> 250]
    /\ Len(ParamBatchCalls[1].arg[2].value) = 250
    /\ obs.params[1].v = [type |-> "str", val |-> 249]
    /\ Len(ParamBatchCalls[1].arg[1].value) = 249

====
